---- MODULE Spec2Model ----
(***************************************************************************)
(* pitweb, git.py: the parsers that turn the output of git commands into   *)
(* objects (GitDate, GitPerson, GitCommit, GitTag, GitHead, GitDiffTree,   *)
(* GitTree, GitBlob) and the Git facade that drives them.                  *)
(*                                                                         *)
(* A Python string is a sequence of one-character strings.  A Python       *)
(* exception that leaves a method is the record Raise(<its type>).         *)
(* git.py is Python 2 (it writes the octal literal 0160000), so m/60 on    *)
(* two ints is floor division.                                             *)
(***************************************************************************)
EXTENDS Integers, Sequences, FiniteSets, TLC

\* ------------------------------------------------------------------------
\* Characters and Python's string primitives
\* ------------------------------------------------------------------------
SP  == " "
TAB == "TAB"
LF  == "LF"
NUL == "NUL"

\* Every value that may be None or an exception is a record with a kind.
None == [kind |-> "None"]

\* The result of a call that has not been made yet.
Pending == [kind |-> "pending"]

Raise(type) == [kind |-> "exc", type |-> type]

IsExc(v) == v.kind = "exc"

Digit == {"0", "1", "2", "3", "4", "5", "6", "7", "8", "9"}

DigitVal(c) ==
    CASE c = "0" -> 0 [] c = "1" -> 1 [] c = "2" -> 2 [] c = "3" -> 3
      [] c = "4" -> 4 [] c = "5" -> 5 [] c = "6" -> 6 [] c = "7" -> 7
      [] c = "8" -> 8 [] c = "9" -> 9

Min(a, b) == IF a < b THEN a ELSE b

\* s[a:b] with 0 <= a, b (Python slicing clamps both ends to the string).
Slice(s, a, b) == SubSeq(s, Min(a, Len(s)) + 1, Min(b, Len(s)))

\* s[a:]
SliceFrom(s, a) == Slice(s, a, Len(s))

\* s.startswith(p)
StartsWith(s, p) == Len(s) >= Len(p) /\ SubSeq(s, 1, Len(p)) = p

\* The positions of c in s, ascending.
Positions(s, c) == SelectSeq([i \in 1..Len(s) |-> i], LAMBDA i : s[i] = c)

\* 1-based position of the first c in s, 0 if none (s.find(c) + 1).
Find(s, c) == LET at == Positions(s, c) IN IF Len(at) = 0 THEN 0 ELSE at[1]

\* s.split(c, maxsplit): at most maxsplit cuts, from the left.
SplitMax(s, c, maxsplit) ==
    LET at == Positions(s, c)
        n  == Min(maxsplit, Len(at))
    IN  [k \in 1..(n + 1) |->
            SubSeq(s, IF k = 1 THEN 1 ELSE at[k - 1] + 1,
                      IF k = n + 1 THEN Len(s) ELSE at[k] - 1)]

\* s.split(c)
Split(s, c) == SplitMax(s, c, Len(s))

\* s.rsplit(c, maxsplit): at most maxsplit cuts, from the right.
RSplitMax(s, c, maxsplit) ==
    LET at   == Positions(s, c)
        n    == Min(maxsplit, Len(at))
        skip == Len(at) - n
    IN  [k \in 1..(n + 1) |->
            SubSeq(s, IF k = 1 THEN 1 ELSE at[skip + k - 1] + 1,
                      IF k = n + 1 THEN Len(s) ELSE at[skip + k] - 1)]

\* s.split(): cut on runs of whitespace, no empty fields.
SplitWS(s) ==
    LET ws     == {SP, TAB, LF}
        idx    == [i \in 1..Len(s) |-> i]
        starts == SelectSeq(idx, LAMBDA i : s[i] \notin ws /\ (i = 1 \/ s[i - 1] \in ws))
        ends   == SelectSeq(idx, LAMBDA i : s[i] \notin ws /\ (i = Len(s) \/ s[i + 1] \in ws))
    IN  [k \in 1..Len(starts) |-> SubSeq(s, starts[k], ends[k])]

\* sep.join(parts)
RECURSIVE Join(_, _)
Join(parts, sep) ==
    IF Len(parts) = 0 THEN <<>>
    ELSE IF Len(parts) = 1 THEN parts[1]
    ELSE parts[1] \o sep \o Join(Tail(parts), sep)

AllIn(s, set) == \A i \in 1..Len(s) : s[i] \in set

\* int(s) for a string of decimal digits; int('') raises ValueError.
RECURSIVE DigitsVal(_)
DigitsVal(s) ==
    IF Len(s) = 0 THEN 0
    ELSE 10 * DigitsVal(SubSeq(s, 1, Len(s) - 1)) + DigitVal(s[Len(s)])

\* int(s) returns (rather than raising ValueError) for the strings the
\* patterns let through: one or more decimal digits.
CanInt(s) == Len(s) > 0 /\ AllIn(s, Digit)

\* str(n) for n >= 0
RECURSIVE ToStr(_)
ToStr(n) ==
    LET d == CHOOSE c \in Digit : DigitVal(c) = n % 10 IN
    IF n < 10 THEN <<d>> ELSE ToStr(n \div 10) \o <<d>>

\* All sequences over set of length 0..n.
SeqsUpTo(set, n) == UNION {[1..k -> set] : k \in 0..n}

\* ------------------------------------------------------------------------
\* Pattern library
\* ------------------------------------------------------------------------

\* basic_patterns['epoch'] = [0-9]+
MatchEpoch(s) == Len(s) >= 1 /\ AllIn(s, Digit)

\* basic_patterns['tz'] = [\+-][0-9]+
MatchTz(s) == Len(s) >= 2 /\ s[1] \in {"+", "-"} /\ AllIn(Tail(s), Digit)

\* patterns['person'] = [^ ]* (.*) ({epoch}) ({tz})$ matched from the start
\* of the line: the groups 1..3 (person, epoch, tz), or None.  The tz and the
\* epoch hold no space, so they are the last two space-separated fields,
\* and [^ ]* is what precedes the first space.
MatchPersonFields(r, first) ==
    IF Len(r) = 3 /\ first > 0 /\ MatchEpoch(r[2]) /\ MatchTz(r[3])
    THEN [kind |-> "match", g1 |-> SubSeq(r[1], first + 1, Len(r[1])),
          g2 |-> r[2], g3 |-> r[3]]
    ELSE None

MatchPerson(line) ==
    MatchPersonFields(RSplitMax(line, SP, 2), Find(Head(RSplitMax(line, SP, 2)), SP))

\* ------------------------------------------------------------------------
\* State
\* ------------------------------------------------------------------------
VARIABLES
    person_line,    \* _parsePerson: the attribution line handed in
    person          \* _parsePerson: None before the call, then what it returns or raises

personVars == <<person_line, person>>

VARIABLES
    rev_res,        \* GitComm.revList: the raw output git rev-list gives
    rev_call,       \* which lookup ran: "none", "revList", "commit", "head.commit"
    rev_result      \* what that lookup returned or raised

revVars == <<rev_res, rev_call, rev_result>>

VARIABLES
    commits,        \* the GitCommit list handed to commitsSetRefs
    tags,           \* the GitTag list of Git.refs
    heads,          \* the GitHead list of refs/heads
    remotes,        \* the GitHead list of refs/remotes
    calls           \* how often commitsSetRefs ran on these lists

xrefVars == <<commits, tags, heads, remotes, calls>>

VARIABLES
    dt_line,        \* _parseDiffTree: the line handed in
    dt_entry        \* _parseDiffTree: Pending before the call, then what it returns or raises

dtLineVars == <<dt_line, dt_entry>>

VARIABLES
    diff_out,       \* GitComm.diffTree: the raw output git diff-tree gives
    diff_pc,        \* Git.diffTree: "start", "patch" (inside _parseDiffTreePatch), "done", "raised"
    diff_trees,     \* the list diff_trees
    patch_lines,    \* the lines after the first empty line
    patch_pos,      \* _parseDiffTreePatch: how many of its lines the loop has consumed
    cur,            \* _parseDiffTreePatch: the fill cursor
    patch,          \* _parseDiffTreePatch: the patch buffer
    diff_exc        \* the exception that left Git.diffTree, None if none

diffVars == <<diff_out, diff_pc, diff_trees, patch_lines, patch_pos, cur, patch, diff_exc>>

VARIABLES
    refs_tagout,    \* GitComm.forEachRef: the raw output for refs/tags
    refs_headout,   \* GitComm.forEachRef: the raw output for refs/heads and refs/remotes
    refs_result     \* Git.refs: Pending before the call, then what it returns or raises

refsVars == <<refs_tagout, refs_headout, refs_result>>

VARIABLES
    ls_long_out,    \* GitComm.lsTree: what git ls-tree --long -z prints
    ls_short_out,   \* GitComm.lsTree: what git ls-tree -z prints
    tree_pc,        \* Git.tree: "start", "queried", "retried", "done", "raised"
    tree_queries,   \* the value of long of every lsTree call made so far, in order
    tree_s,         \* the local s
    tree_result     \* Git.tree: Pending, then what it returns or raises

treeVars == <<ls_long_out, ls_short_out, tree_pc, tree_queries, tree_s, tree_result>>

vars == <<personVars, revVars, xrefVars, dtLineVars, diffVars, refsVars, treeVars>>

\* ------------------------------------------------------------------------
\* Primitive value parsers: GitDate, GitPerson
\* ------------------------------------------------------------------------

\* GitDate._parseEpochTz.  datetime.fromtimestamp(t) is kept as the instant t
\* it denotes; gmt and local are both produced by the same conversion.
\* e, h, m are int(epoch), int(tz[1:3]), int(tz[4:]).
EpochTz(e, h, m, tz) ==
    [kind |-> "GitDate",
     gmt |-> IF tz[1] = "+" THEN e - ((h + (m \div 60)) * 3600)
                            ELSE e + ((h + (m \div 60)) * 3600),
     local |-> e, local_tz |-> tz]

ParseEpochTz(epoch, tz) ==
    IF ~CanInt(epoch) \/ ~CanInt(Slice(tz, 1, 3)) \/ ~CanInt(SliceFrom(tz, 4))
    THEN Raise("ValueError")
    ELSE EpochTz(DigitsVal(epoch), DigitsVal(Slice(tz, 1, 3)), DigitsVal(SliceFrom(tz, 4)), tz)

\* GitDate.__init__
GitDate(epoch, tz) == ParseEpochTz(epoch, tz)

\* GitPerson.__init__
GitPerson(p, date) == [kind |-> "GitPerson", person |-> p, date |-> date]

\* Git._parsePerson: the GitPerson of p and date, unless GitDate raised.
PersonOf(p, date) == IF IsExc(date) THEN date ELSE GitPerson(p, date)

\* Git._parsePerson, given the match of patterns['person'].
ParsePersonMatch(line, match) ==
    IF match # None
    THEN PersonOf(match.g1, GitDate(match.g2, match.g3))
    ELSE PersonOf(line, GitDate(<<"0">>, <<"+", "0", "0", "0", "0">>))

\* Git._parsePerson
ParsePerson(line) == ParsePersonMatch(line, MatchPerson(line))

\* ------------------------------------------------------------------------
\* Commit records: Git._parseIdParents, Git._parseCommit, Git.revList,
\* Git.commit, GitHead.commit
\* ------------------------------------------------------------------------
W_tree      == <<"t", "r", "e", "e">>
W_parent    == <<"p", "a", "r", "e", "n", "t">>
W_author    == <<"a", "u", "t", "h", "o", "r">>
W_committer == <<"c", "o", "m", "m", "i", "t", "t", "e", "r">>
W_indent    == <<" ", " ", " ", " ">>

\* x in parents
InSeq(x, seq) == \E i \in 1..Len(seq) : seq[i] = x

\* Git._parseIdParents: the id and the parents of the first line.
ParseIdParents(line) ==
    LET ids == Split(line, SP) IN
    [id |-> ids[1], parents |-> IF Len(ids) > 1 THEN Tail(ids) ELSE <<>>]

\* GitCommit.__init__
GitCommit(id, tree, parents, author, committer, comment) ==
    [kind |-> "GitCommit", id |-> id, tree |-> tree, parents |-> parents,
     author |-> author, committer |-> committer, comment |-> comment,
     tags |-> <<>>, heads |-> <<>>, remotes |-> <<>>]

\* _parseCommit, the loop body: if line[:4] == 'tree'
CommitLineTree(c, line) ==
    IF Slice(line, 0, 4) = W_tree THEN [c EXCEPT !.tree = SliceFrom(line, 5)] ELSE c

\* _parseCommit, the loop body: if line[:6] == 'parent' and line[7:] not in parents
CommitLineParent(c, line) ==
    IF Slice(line, 0, 6) = W_parent /\ ~InSeq(SliceFrom(line, 7), c.parents)
    THEN [c EXCEPT !.parents = Append(@, SliceFrom(line, 7))] ELSE c

\* c with the field set to the person, or the exception _parsePerson raised.
CommitSetPerson(c, field, p) == IF IsExc(p) THEN p ELSE [c EXCEPT ![field] = p]

\* _parseCommit, the loop body: if line[:6] == 'author', if line[:9] == 'committer'
CommitLinePerson(c, line) ==
    IF Slice(line, 0, 6) = W_author THEN CommitSetPerson(c, "author", ParsePerson(line))
    ELSE IF Slice(line, 0, 9) = W_committer
    THEN CommitSetPerson(c, "committer", ParsePerson(line))
    ELSE c

\* _parseCommit, the loop body: if line[:4] == '    '
CommitLineComment(c, line) ==
    IF IsExc(c) THEN c
    ELSE IF Slice(line, 0, 4) = W_indent
    THEN [c EXCEPT !.comment = @ \o SliceFrom(line, 4) \o <<LF>>]
    ELSE c

\* One turn of the loop of _parseCommit over the header and comment lines:
\* c holds the locals tree, parents, author, committer and comment.
ParseCommitLine(c, line) ==
    CommitLineComment(CommitLinePerson(CommitLineParent(CommitLineTree(c, line), line), line), line)

RECURSIVE ParseCommitLines(_, _)
ParseCommitLines(c, lines) ==
    IF IsExc(c) \/ Len(lines) = 0 THEN c
    ELSE ParseCommitLines(ParseCommitLine(c, Head(lines)), Tail(lines))

\* Git._parseCommit, given what _parseIdParents returns for the first line,
\* and the lines after it.
ParseCommitFrom(first, lines) ==
    ParseCommitLines(GitCommit(first.id, None, first.parents, None, None, <<>>), lines)

\* Git._parseCommit: the GitCommit of one record, or the exception of it.
ParseCommit(s) == ParseCommitFrom(ParseIdParents(Head(Split(s, LF))), Tail(Split(s, LF)))

\* objs.append(o), the loop ending with o when o is an exception.
AppendObj(o, rest) == IF IsExc(o) THEN <<o>> ELSE <<o>> \o rest

\* The loop of Git.revList over the hunks of the output.
RECURSIVE ParseCommits(_)
ParseCommits(hunks) ==
    IF Len(hunks) = 0 THEN <<>>
    ELSE IF Len(Head(hunks)) > 1
    THEN AppendObj(ParseCommit(Head(hunks)), ParseCommits(Tail(hunks)))
    ELSE ParseCommits(Tail(hunks))

\* What a listing loop ends with: the list, or the exception that ended it.
ListOrExc(objs) ==
    IF Len(objs) > 0 /\ IsExc(objs[Len(objs)]) THEN objs[Len(objs)]
    ELSE [kind |-> "list", items |-> objs]

\* Git.revList on the raw output res: the list of commits, or the exception
\* of the first record whose parsing raises.
RevList(res) == ListOrExc(ParseCommits(Split(res, NUL)))

\* Git.commit(id): revList(id, max_count = 1), then None if len(c) == 0,
\* else c[0].
Commit(res) ==
    IF IsExc(RevList(res)) THEN RevList(res)
    ELSE IF Len(RevList(res).items) = 0 THEN None
    ELSE RevList(res).items[1]

\* GitHead.commit(): self.git.revList(self.id, max_count = 1)[0].
HeadCommit(res) ==
    IF IsExc(RevList(res)) THEN RevList(res)
    ELSE IF Len(RevList(res).items) = 0 THEN Raise("IndexError")
    ELSE RevList(res).items[1]

\* ------------------------------------------------------------------------
\* Refs and the cross-reference of commits with them: GitTag, GitHead,
\* Git.commitsSetRefs
\* ------------------------------------------------------------------------

\* GitTag.__init__
GitTag(id, objid, name, msg, tagger) ==
    [kind |-> "GitTag", id |-> id, objid |-> objid, name |-> name, msg |-> msg,
     tagger |-> tagger]

\* GitHead.__init__
GitHead(id, name) == [kind |-> "GitHead", id |-> id, name |-> name]

\* commitsSetRefs with the tags matched on their own id instead of the id of
\* the tagged object.
MutSetRefsTagOwnId(cs, ts, hs, rs) ==
    [i \in 1..Len(cs) |->
        [cs[i] EXCEPT
            !.tags    = @ \o SelectSeq(ts, LAMBDA t : t.id = cs[i].id),
            !.heads   = @ \o SelectSeq(hs, LAMBDA h : h.id = cs[i].id),
            !.remotes = @ \o SelectSeq(rs, LAMBDA r : r.id = cs[i].id)]]

\* commitsSetRefs appending a ref only when the list does not hold it yet.
MutSetRefsOnce(cs, ts, hs, rs) ==
    [i \in 1..Len(cs) |->
        [cs[i] EXCEPT
            !.tags    = @ \o SelectSeq(ts, LAMBDA t : t.objid = cs[i].id /\ ~InSeq(t, cs[i].tags)),
            !.heads   = @ \o SelectSeq(hs, LAMBDA h : h.id = cs[i].id /\ ~InSeq(h, cs[i].heads)),
            !.remotes = @ \o SelectSeq(rs, LAMBDA r : r.id = cs[i].id /\ ~InSeq(r, cs[i].remotes))]]

\* Git.commitsSetRefs: each commit, in turn, gets appended the tags whose
\* objid is its id, the heads and the remotes whose id is its id, each in
\* list order.
SetRefs(cs, ts, hs, rs) ==
    [i \in 1..Len(cs) |->
        [cs[i] EXCEPT
            !.tags    = @ \o SelectSeq(ts, LAMBDA t : t.objid = cs[i].id),
            !.heads   = @ \o SelectSeq(hs, LAMBDA h : h.id = cs[i].id),
            !.remotes = @ \o SelectSeq(rs, LAMBDA r : r.id = cs[i].id)]]

\* ------------------------------------------------------------------------
\* Diff-tree: GitObj.fileType, GitDiffTree, Git._parseDiffTree,
\* Git._parseDiffTreePatch, Git.diffTree
\* ------------------------------------------------------------------------
IdLen == 40

OctDigit == {"0", "1", "2", "3", "4", "5", "6", "7"}

HexDigit == Digit \cup {"a", "b", "c", "d", "e", "f", "A", "B", "C", "D", "E", "F"}

\* int(s, 8)
RECURSIVE OctVal(_)
OctVal(s) ==
    IF Len(s) = 0 THEN 0
    ELSE 8 * OctVal(SubSeq(s, 1, Len(s) - 1)) + DigitVal(s[Len(s)])

\* stat.S_IFMT(mode) >> 12: the file type bits of a mode.
IFMT(mode) == (mode \div 4096) % 16

\* GitObj.fileType
FileType(mode) ==
    IF mode = 0 THEN ""
    ELSE IF IFMT(mode) = 14 THEN "submodule"
    ELSE IF IFMT(mode) = 4 THEN "directory"
    ELSE IF IFMT(mode) = 8 THEN "file"
    ELSE IF IFMT(mode) = 10 THEN "symlink"
    ELSE "unknown"

\* patterns['diff-tree'] =
\*   ^:([0-7]{6}) ([0-7]{6}) ([0-9a-fA-F]{40}) ([0-9a-fA-F]{40}) (.)([0-9]{0,3})\t(.*)$
\* The groups 1..7, or None.  Every field before the status has a fixed
\* width, and the digits of group 6 end at the first tab.  The lines come
\* from split('\n') and hold no newline.
MatchDiffTree(line) ==
    LET p3 == 16                    \* 1-based start of group 3
        p4 == p3 + IdLen + 1        \* start of group 4
        ps == p4 + IdLen + 1        \* position of the status letter
        RECURSIVE digits(_)
        digits(n) == IF n < 3 /\ ps + 1 + n <= Len(line) /\ line[ps + 1 + n] \in Digit
                     THEN digits(n + 1) ELSE n
        d  == digits(0)
    IN  IF /\ Len(line) >= ps + 1
           /\ line[1] = ":"
           /\ AllIn(SubSeq(line, 2, 7), OctDigit)
           /\ line[8] = SP
           /\ AllIn(SubSeq(line, 9, 14), OctDigit)
           /\ line[15] = SP
           /\ AllIn(SubSeq(line, p3, p3 + IdLen - 1), HexDigit)
           /\ line[p4 - 1] = SP
           /\ AllIn(SubSeq(line, p4, p4 + IdLen - 1), HexDigit)
           /\ line[ps - 1] = SP
           /\ line[ps] # LF
           /\ ps + 1 + d <= Len(line)
           /\ line[ps + 1 + d] = TAB
           /\ LF \notin {line[i] : i \in (ps + 2 + d)..Len(line)}
        THEN [kind |-> "match",
              g1 |-> SubSeq(line, 2, 7), g2 |-> SubSeq(line, 9, 14),
              g3 |-> SubSeq(line, p3, p3 + IdLen - 1),
              g4 |-> SubSeq(line, p4, p4 + IdLen - 1),
              g5 |-> line[ps], g6 |-> SubSeq(line, ps + 1, ps + d),
              g7 |-> SubSeq(line, ps + 2 + d, Len(line))]
        ELSE None

\* patterns['diff-tree-patch'] = ^diff --git
W_diffgit == <<"d", "i", "f", "f", " ", "-", "-", "g", "i", "t">>

MatchDiffTreePatch(line) == StartsWith(line, W_diffgit)

\* GitDiffTree.__init__
GitDiffTree(from_mode, to_mode, from_id, to_id, status, similarity, from_file, to_file) ==
    [kind |-> "GitDiffTree",
     from_mode |-> from_mode, to_mode |-> to_mode, from_id |-> from_id, to_id |-> to_id,
     status |-> status,
     similarity |-> IF Len(similarity) > 0 THEN ToStr(DigitsVal(similarity)) \o <<"%">>
                    ELSE similarity,
     from_file |-> from_file, to_file |-> to_file, patch |-> <<>>,
     from_mode_oct |-> OctVal(from_mode), to_mode_oct |-> OctVal(to_mode),
     from_file_type |-> FileType(OctVal(from_mode)),
     to_file_type |-> FileType(OctVal(to_mode))]

\* Git._parseDiffTree: None, the GitDiffTree of the line, or the ValueError of
\* unpacking split('\t', 1) into from_file, to_file.
ParseDiffTree(line) ==
    LET match == MatchDiffTree(line) IN
    IF match = None THEN None
    ELSE IF match.g5 \in {"R", "C"}
    THEN LET ft == SplitMax(match.g7, TAB, 1) IN
         IF Len(ft) # 2 THEN Raise("ValueError")
         ELSE GitDiffTree(match.g1, match.g2, match.g3, match.g4, match.g5, match.g6,
                          ft[1], ft[2])
    ELSE GitDiffTree(match.g1, match.g2, match.g3, match.g4, match.g5, match.g6,
                     match.g7, match.g7)

\* _parseDiffTreePatch with the buffer never reset at a marker.
MutNextPatchNoReset(buf, flush, line) == buf \o line \o <<LF>>

\* _parseDiffTreePatch, the buffer after a turn of the loop: emptied when it
\* was flushed, then patch += line + '\n'.
NextPatch(buf, flush, line) == (IF flush THEN <<>> ELSE buf) \o line \o <<LF>>

\* The first loop of Git.diffTree from line i on: the entries of the lines
\* before the first empty line, the lines after it, and the exception that
\* ended the loop, if one did.
RECURSIVE PassOne(_, _, _)
PassOne(lines, i, entries) ==
    IF i > Len(lines)
    THEN [entries |-> entries, patch_lines |-> <<>>, exc |-> None]
    ELSE IF Len(lines[i]) = 0
    THEN [entries |-> entries, patch_lines |-> SubSeq(lines, i + 1, Len(lines)), exc |-> None]
    ELSE LET o == ParseDiffTree(lines[i]) IN
         IF IsExc(o) THEN [entries |-> entries, patch_lines |-> <<>>, exc |-> o]
         ELSE PassOne(lines, i + 1, IF o # None THEN Append(entries, o) ELSE entries)

\* ------------------------------------------------------------------------
\* Ref listing: Git._parseTag, Git.refs
\* ------------------------------------------------------------------------
W_commit      == <<"c", "o", "m", "m", "i", "t">>
W_taggerColon == <<"t", "a", "g", "g", "e", "r", ":", " ">>
W_refsTags    == <<"r", "e", "f", "s", "/", "t", "a", "g", "s", "/">>
W_refsHeads   == <<"r", "e", "f", "s", "/", "h", "e", "a", "d", "s", "/">>
W_refsRemotes == <<"r", "e", "f", "s", "/", "r", "e", "m", "o", "t", "e", "s", "/">>

\* Git._parseTag, the tag built from the unpacked fields and the tagger, or
\* the exception _parsePerson raised.
TagOf(objectname, objecttype, refname, pobjectname, msg, tagger) ==
    IF IsExc(tagger) THEN tagger
    ELSE GitTag(objectname,
                IF objecttype = W_commit THEN objectname
                ELSE SubSeq(pobjectname, 2, Len(pobjectname) - 1),
                SliceFrom(refname, Len(W_refsTags)), msg, tagger)

\* Git._parseTag, given lines[0].split(' ', 4), lines[1].rsplit(' ', 2) and
\* lines[1] (the creator): None when either does not unpack.
ParseTagFields(f, c, creator) ==
    IF Len(f) # 5 THEN None
    ELSE IF Len(c) # 3 THEN None
    ELSE TagOf(f[1], f[2], f[3], f[4], f[5],
               IF Len(c[1]) = 0 THEN ParsePerson(<<>>)
               ELSE ParsePerson(W_taggerColon \o creator))

\* Git._parseTag: None for a line that does not unpack, else the GitTag, or
\* the exception of _parsePerson.
ParseTag(s) ==
    IF Len(Split(s, NUL)) # 2 THEN None
    ELSE ParseTagFields(SplitMax(Split(s, NUL)[1], SP, 4),
                        RSplitMax(Split(s, NUL)[2], SP, 2), Split(s, NUL)[2])

\* if tag: tags.append(tag), the loop ending with tag when it is an exception.
AppendTag(tag, rest) ==
    IF IsExc(tag) THEN <<tag>>
    ELSE IF tag # None THEN <<tag>> \o rest
    ELSE rest

\* The first loop of Git.refs: the tags of the lines, ended by the exception
\* of the first line that raises.
RECURSIVE ParseTags(_)
ParseTags(lines) ==
    IF Len(lines) = 0 THEN <<>>
    ELSE AppendTag(ParseTag(Head(lines)), ParseTags(Tail(lines)))

\* The body of the second loop of Git.refs on d = line.split(' '): the head
\* (remote = FALSE) or the remote (remote = TRUE) of the line, if it is one,
\* before those of the lines after it.
AppendHead(d, remote, rest) ==
    IF Len(d) < 3 THEN rest
    ELSE IF Slice(d[3], 0, Len(W_refsHeads)) = W_refsHeads
    THEN IF remote THEN rest
         ELSE <<GitHead(d[1], SliceFrom(d[3], Len(W_refsHeads)))>> \o rest
    ELSE IF Slice(d[3], 0, Len(W_refsRemotes)) = W_refsRemotes
    THEN IF remote
         THEN <<GitHead(d[1], SliceFrom(d[3], Len(W_refsRemotes)))>> \o rest
         ELSE rest
    ELSE rest

\* The second loop of Git.refs: the heads (remote = FALSE) or the remotes
\* (remote = TRUE) of the lines.
RECURSIVE ParseHeads(_, _)
ParseHeads(lines, remote) ==
    IF Len(lines) = 0 THEN <<>>
    ELSE AppendHead(Split(Head(lines), SP), remote, ParseHeads(Tail(lines), remote))

\* Git.refs, given the tags of the first loop and the lines of the second.
RefsOf(ts, hl) ==
    IF Len(ts) > 0 /\ IsExc(ts[Len(ts)]) THEN ts[Len(ts)]
    ELSE [kind |-> "refs", tags |-> ts, heads |-> ParseHeads(hl, FALSE),
          remotes |-> ParseHeads(hl, TRUE)]

\* Git.refs on the two raw outputs: (tags, heads, remotes), or the exception.
Refs(tagout, headout) == RefsOf(ParseTags(Split(tagout, LF)), Split(headout, LF))

\* ------------------------------------------------------------------------
\* Tree listing: GitTree, GitBlob, Git._parseTree, Git.tree
\* ------------------------------------------------------------------------
W_usage == <<"u", "s", "a", "g", "e">>
W_treeType == <<"t", "r", "e", "e">>

\* int(mode, 8) returns for a string of octal digits and raises ValueError
\* for the others that reach it.
CanOct(s) == Len(s) > 0 /\ AllIn(s, OctDigit)

\* GitTree.__init__
GitTree(id, name, mode, size) ==
    IF ~CanOct(mode) THEN Raise("ValueError")
    ELSE [kind |-> "GitTree", id |-> id, name |-> name, mode |-> mode, size |-> size,
          mode_oct |-> OctVal(mode)]

\* GitBlob.__init__ (data = '')
GitBlob(id, name, mode, size) ==
    IF Len(mode) > 0 /\ ~CanOct(mode) THEN Raise("ValueError")
    ELSE [kind |-> "GitBlob", id |-> id, name |-> name, mode |-> mode, size |-> size,
          data |-> <<>>, mode_oct |-> IF Len(mode) > 0 THEN OctVal(mode) ELSE -1]

\* Git._parseTree: the GitTree or GitBlob of the line, the ValueError of
\* unpacking split('\t', 1), or the IndexError of p[0], p[1], p[2].
ParseTree(line) ==
    LET dn == SplitMax(line, TAB, 1) IN
    IF Len(dn) # 2 THEN Raise("ValueError")
    ELSE LET p == SplitWS(dn[1]) IN
         IF Len(p) < 3 THEN Raise("IndexError")
         ELSE LET size == IF Len(p) > 3 THEN p[4] ELSE <<>> IN
              IF p[2] = W_treeType THEN GitTree(p[3], dn[2], p[1], size)
              ELSE GitBlob(p[3], dn[2], p[1], size)

\* The loop of Git.tree over the records of s.
RECURSIVE ParseTreeLines(_)
ParseTreeLines(lines) ==
    IF Len(lines) = 0 THEN <<>>
    ELSE IF Len(Head(lines)) > 0
    THEN LET o == ParseTree(Head(lines)) IN
         IF IsExc(o) THEN <<o>> ELSE <<o>> \o ParseTreeLines(Tail(lines))
    ELSE ParseTreeLines(Tail(lines))

\* What Git.tree returns or raises for the output s it ends up with.
TreeObjs(s) ==
    LET objs == ParseTreeLines(Split(s, NUL)) IN
    IF Len(objs) > 0 /\ IsExc(objs[Len(objs)]) THEN objs[Len(objs)]
    ELSE [kind |-> "list", items |-> objs]

\* Git.tree never asking again.
MutRejectsLongNever(s) == FALSE

\* Git.tree: s.startswith('usage'), the sign of a git that does not know
\* --long.
RejectsLong(s) == StartsWith(s, W_usage)

\* ------------------------------------------------------------------------
\* Attribution lines: <ident> <name/email> <epoch> <offset>, and lines that
\* lack the trailing epoch/offset.
\* ------------------------------------------------------------------------
Idents    == {<<"a", "u", "t", "h", "o", "r">>, <<"t", "a", "g", "g", "e", "r", ":">>}

PersonNames == {<<"A">>, <<"A", " ", "<", "a", "@", "b", ">">>, <<>>}

Epochs    == {<<"0">>, <<"1", "0", "0">>, <<"8", "6", "4", "0", "0">>}

Offsets   == {<<"+", "0", "0", "0", "0">>, <<"+", "0", "2", "0", "0">>,
              <<"-", "0", "8", "0", "0">>, <<"+", "0", "5", "3", "0">>,
              <<"-", "0", "3", "3", "0">>, <<"+", "1", "2", "4", "5">>,
              <<"+", "1">>, <<"-", "0", "5", "3">>,
              <<"+", "0", "5", "3", "0", "1">>, <<"+", "0", "0", "0", "0", "9", "9">>}

PersonLines ==
    {Join(<<i, n, e, o>>, <<SP>>) : i \in Idents, n \in PersonNames, e \in Epochs, o \in Offsets}
    \cup {Join(<<i, n>>, <<SP>>) : i \in Idents, n \in PersonNames}
    \cup {Join(<<i, n, e>>, <<SP>>) : i \in Idents, n \in PersonNames, e \in Epochs}
    \cup {<<>>, <<"A">>, <<"A", " ", "x", " ", "+", "0", "1", "0", "0">>}

\* ------------------------------------------------------------------------
\* Output of git rev-list --parents --header: records <id> <parent>*, then
\* header and comment lines, each record closed by a null byte.
\* ------------------------------------------------------------------------
MaxFirstParents == 2

MaxHeaderLines == 2

ParentIds == {<<"p">>, <<"q">>}

FirstLines == {Join(<<(<<"c">>)>> \o ps, <<SP>>) : ps \in SeqsUpTo(ParentIds, MaxFirstParents)}

HeaderLines ==
    {W_tree \o <<SP, "t">>,
     W_parent \o <<SP, "p">>,
     W_parent \o <<SP, "q">>,
     W_author \o <<SP, "A", SP, "1", "0", "0", SP, "+", "0", "2", "0", "0">>,
     W_committer \o <<SP, "C", SP, "1", "0", "0", SP, "+", "1">>,
     W_indent \o <<"m">>}

CommitRecords ==
    {Join(<<f>> \o hs, <<LF>>) : f \in FirstLines, hs \in SeqsUpTo(HeaderLines, MaxHeaderLines)}

\* What git rev-list can print: nothing, one record, or (without
\* --max-count=1) further records.
RevListOutputs ==
    {<<>>, <<LF>>}
    \cup {r \o <<NUL>> : r \in CommitRecords}
    \cup {r \o <<NUL>> \o f \o <<NUL>> : r \in CommitRecords, f \in FirstLines}

\* git rev-list --max-count=1 prints at most one record.
HonoursMaxCountOne(res) == Len(Split(res, NUL)) <= 2

\* ------------------------------------------------------------------------
\* Commit and ref lists for the cross-reference.  git lists a commit once
\* and a ref once, so the ids of the commits differ and the names of the refs
\* of one list differ.
\* ------------------------------------------------------------------------
MaxCommits == 2

MaxTags == 2

MaxHeads == 1

MaxRemotes == 1

MaxCalls == 2

ObjIds == {<<"a">>, <<"b">>}

CommitLists ==
    {cs \in SeqsUpTo(ObjIds, MaxCommits) : \A i, j \in 1..Len(cs) : cs[i] = cs[j] => i = j}

\* The k-th ref of a list is named <prefix><k>.
TagLists ==
    {[k \in 1..Len(ts) |-> GitTag(ts[k][1], ts[k][2], <<"v">> \o ToStr(k), <<>>, None)] :
        ts \in SeqsUpTo(ObjIds \X ObjIds, MaxTags)}

HeadLists(prefix, n) ==
    {[k \in 1..Len(hs) |-> GitHead(hs[k], prefix \o ToStr(k))] : hs \in SeqsUpTo(ObjIds, n)}

\* ------------------------------------------------------------------------
\* Output of git diff-tree -r --patch-with-raw: raw lines, an empty line,
\* patch lines.
\* ------------------------------------------------------------------------
MaxRawLines == 2

MaxPatchLines == 3

Rep(c, n) == [i \in 1..n |-> c]

RawLine(from_mode, to_mode, from_id, to_id, status, path) ==
    <<":">> \o from_mode \o <<SP>> \o to_mode \o <<SP>> \o from_id \o <<SP>> \o to_id
        \o <<SP>> \o status \o <<TAB>> \o path

ModeFile == <<"1", "0", "0", "6", "4", "4">>

ModeNone == <<"0", "0", "0", "0", "0", "0">>

ModeLink == <<"1", "2", "0", "0", "0", "0">>

\* Lines for _parseDiffTree: every status with and without similarity digits,
\* paths with no, one and two tabs, and lines the pattern rejects.
DiffTreeLines ==
    {RawLine(fm, ModeFile, Rep("a", IdLen), Rep("B", IdLen), st \o sim, path) :
        fm \in {ModeFile, ModeNone, ModeLink},
        st \in {<<"M">>, <<"A">>, <<"R">>, <<"C">>},
        sim \in {<<>>, <<"0", "9", "0">>, <<"1", "0", "0">>, <<"7">>},
        path \in {<<"f">>, <<"o", TAB, "n">>, <<"o", TAB, "n", TAB, "x">>, <<>>}}
    \cup {RawLine(ModeFile, ModeFile, Rep("a", IdLen), Rep("b", IdLen), st, <<"f">>) :
            st \in {<<"M", "1", "0", "0", "0">>, <<>>, <<"M", "M">>}}
    \cup {RawLine(ModeFile, ModeFile, Rep("a", IdLen - 1), Rep("b", IdLen), <<"M">>, <<"f">>),
          RawLine(ModeFile, <<"1", "0", "0", "6", "4", "8">>, Rep("a", IdLen), Rep("b", IdLen),
                  <<"M">>, <<"f">>),
          RawLine(ModeFile, ModeFile, Rep("a", IdLen), Rep("g", IdLen), <<"M">>, <<"f">>),
          Tail(RawLine(ModeFile, ModeFile, Rep("a", IdLen), Rep("b", IdLen), <<"M">>, <<"f">>)),
          <<>>, W_diffgit}

\* Raw lines of a diff-tree output: two modified files, a rename, a rename
\* whose path field holds no tab, and a line that is no raw line.
RawLines ==
    {RawLine(ModeFile, ModeFile, Rep("a", IdLen), Rep("b", IdLen), <<"M">>, <<"f">>),
     RawLine(ModeFile, ModeFile, Rep("c", IdLen), Rep("d", IdLen),
             <<"R", "0", "9", "0">>, <<"o", TAB, "n">>),
     RawLine(ModeFile, ModeFile, Rep("c", IdLen), Rep("d", IdLen), <<"R", "0", "9", "0">>, <<"o">>),
     <<"x">>}

PatchLines ==
    {W_diffgit \o <<SP, "a">>, W_diffgit \o <<SP, "b">>, <<"+", "x">>, <<>>}

\* What git diff-tree can print: raw lines alone, or raw lines, an empty line
\* and the lines of the patches.
DiffTreeOutputs ==
    {Join(raw, <<LF>>) : raw \in SeqsUpTo(RawLines, MaxRawLines)}
    \cup {Join(raw \o <<(<<>>)>> \o pl, <<LF>>) :
            raw \in SeqsUpTo(RawLines, MaxRawLines), pl \in SeqsUpTo(PatchLines, MaxPatchLines)}

\* ------------------------------------------------------------------------
\* Output of git for-each-ref with the format
\* %(objectname) %(objecttype) %(refname) <%(*objectname)> %(subject)%00%(creator)
\* ------------------------------------------------------------------------
MaxTagLines == 3

MaxHeadLines == 1

W_tag == <<"t", "a", "g">>

RefLine(objectname, objecttype, refname, peeled, subject, creator) ==
    Join(<<objectname, objecttype, refname, <<"<">> \o peeled \o <<">">>, subject>>, <<SP>>)
        \o <<NUL>> \o creator

Creator == <<"T", SP, "<", "t", "@", "x", ">", SP, "1", "0", "0", SP, "+", "0", "1", "0", "0">>

\* An annotated tag, a lightweight tag, a tag without a tagger name, a tag
\* whose creator carries a one-digit offset, and lines that are no tag
\* record: no null byte, two null bytes, too few fields before the null
\* byte, too few after it, the empty line.
TagLines ==
    {RefLine(<<"t", "1">>, W_tag, W_refsTags \o <<"v", "1">>, <<"c", "1">>, <<"m", SP, "1">>, Creator),
     RefLine(<<"c", "2">>, W_commit, W_refsTags \o <<"v", "2">>, <<>>, <<"f">>, Creator),
     RefLine(<<"t", "3">>, W_tag, W_refsTags \o <<"v", "3">>, <<"c", "3">>, <<>>,
             <<SP, "1", "0", "0", SP, "+", "0", "1", "0", "0">>),
     RefLine(<<"t", "4">>, W_tag, W_refsTags \o <<"v", "4">>, <<"c", "4">>, <<"m">>,
             <<"T", SP, "1", "0", "0", SP, "+", "1">>),
     Join(<<(<<"t", "5">>), W_tag, W_refsTags \o <<"v", "5">>, <<"<", "c", "5", ">">>, <<"m">>>>, <<SP>>),
     RefLine(<<"t", "6">>, W_tag, W_refsTags \o <<"v", "6">>, <<"c", "6">>, <<"m">>, Creator)
         \o <<NUL, "x">>,
     Join(<<(<<"t", "7">>), W_tag, W_refsTags \o <<"v", "7">>>>, <<SP>>) \o <<NUL>> \o Creator,
     RefLine(<<"t", "8">>, W_tag, W_refsTags \o <<"v", "8">>, <<"c", "8">>, <<"m">>, <<"T", SP, "1">>),
     <<>>}

HeadLines ==
    {RefLine(<<"c", "1">>, W_commit, W_refsHeads \o <<"m">>, <<>>, <<"s">>, Creator),
     RefLine(<<"c", "2">>, W_commit, W_refsRemotes \o <<"o", "/", "m">>, <<>>, <<"s">>, Creator),
     RefLine(<<"c", "3">>, W_commit, <<"r", "e", "f", "s", "/", "s", "t", "a", "s", "h">>, <<>>,
             <<"s">>, Creator),
     <<"c", "4", SP, "x">>}

ForEachRefOutputs(lines, n) == {Join(ls, <<LF>>) : ls \in SeqsUpTo(lines, n)}

\* ------------------------------------------------------------------------
\* Output of git ls-tree -z, with and without --long
\* ------------------------------------------------------------------------
MaxTreeEntries == 2

\* mode, type, id, size, name
TreeEntries ==
    {<<ModeFile, <<"b", "l", "o", "b">>, <<"a", "1">>, <<"1", "2">>, <<"f">>>>,
     <<(<<"0", "4", "0", "0", "0", "0">>), W_treeType, <<"a", "2">>, <<"-">>, <<"d">>>>,
     <<ModeFile, <<"b", "l", "o", "b">>, <<"a", "3">>, <<"7">>, <<"a", SP, "b", SP, "c", SP, "d">>>>,
     <<(<<"1", "6", "0", "0", "0", "0">>), W_commit, <<"a", "4">>, <<"-">>, <<"s">>>>}

\* <mode> SP <type> SP <object> TAB <file>
ShortRecord(e) == Join(<<e[1], e[2], e[3]>>, <<SP>>) \o <<TAB>> \o e[5] \o <<NUL>>

\* <mode> SP <type> SP <object> SP <object size, right justified> TAB <file>
LongRecord(e) ==
    Join(<<e[1], e[2], e[3]>>, <<SP>>) \o <<SP, SP, SP>> \o e[4] \o <<TAB>> \o e[5] \o <<NUL>>

RECURSIVE Concat(_)
Concat(parts) == IF Len(parts) = 0 THEN <<>> ELSE Head(parts) \o Concat(Tail(parts))

\* What git prints instead of a listing: the usage text of a git that does
\* not know an option, or a fatal error.
W_usageText == W_usage \o <<":", SP, "g", "i", "t", SP, "l", "s", "-", "t", "r", "e", "e", LF>>

W_fatalText == <<"f", "a", "t", "a", "l", ":", SP, "x", LF>>

LsTreeLongOutputs ==
    {Concat([k \in 1..Len(es) |-> LongRecord(es[k])]) : es \in SeqsUpTo(TreeEntries, MaxTreeEntries)}
    \cup {W_usageText, W_fatalText}

LsTreeShortOutputs ==
    {Concat([k \in 1..Len(es) |-> ShortRecord(es[k])]) : es \in SeqsUpTo(TreeEntries, MaxTreeEntries)}
    \cup {W_fatalText}

\* ------------------------------------------------------------------------
\* Initial conditions
\* ------------------------------------------------------------------------
PersonInit ==
    /\ person_line \in PersonLines
    /\ person = None

RevIdle ==
    /\ rev_res = <<>>
    /\ rev_call = "none"
    /\ rev_result = None

PersonIdle ==
    /\ person_line = <<>>
    /\ person = None

RevInit ==
    /\ rev_res \in RevListOutputs
    /\ rev_call = "none"
    /\ rev_result = None

XrefInit ==
    /\ commits \in {[k \in 1..Len(cs) |-> GitCommit(cs[k], None, <<>>, None, None, <<>>)] :
                        cs \in CommitLists}
    /\ tags \in TagLists
    /\ heads \in HeadLists(<<"h">>, MaxHeads)
    /\ remotes \in HeadLists(<<"o", "/", "h">>, MaxRemotes)
    /\ calls = 0

XrefIdle ==
    /\ commits = <<>>
    /\ tags = <<>>
    /\ heads = <<>>
    /\ remotes = <<>>
    /\ calls = 0

DtLineInit ==
    /\ dt_line \in DiffTreeLines
    /\ dt_entry = Pending

DtLineIdle ==
    /\ dt_line = <<>>
    /\ dt_entry = Pending

DiffStart ==
    /\ diff_pc = "start"
    /\ diff_trees = <<>>
    /\ patch_lines = <<>>
    /\ patch_pos = 0
    /\ cur = 0
    /\ patch = <<>>
    /\ diff_exc = None

DiffInit ==
    /\ diff_out \in DiffTreeOutputs
    /\ DiffStart

DiffIdle ==
    /\ diff_out = <<>>
    /\ DiffStart

RefsInit ==
    /\ refs_tagout \in ForEachRefOutputs(TagLines, MaxTagLines)
    /\ refs_headout \in ForEachRefOutputs(HeadLines, MaxHeadLines)
    /\ refs_result = Pending

RefsIdle ==
    /\ refs_tagout = <<>>
    /\ refs_headout = <<>>
    /\ refs_result = Pending

TreeStart ==
    /\ tree_pc = "start"
    /\ tree_queries = <<>>
    /\ tree_s = <<>>
    /\ tree_result = Pending

TreeInit ==
    /\ ls_long_out \in LsTreeLongOutputs
    /\ ls_short_out \in LsTreeShortOutputs
    /\ TreeStart

TreeIdle ==
    /\ ls_long_out = <<>>
    /\ ls_short_out = <<>>
    /\ TreeStart

\* ------------------------------------------------------------------------
\* Operations
\* ------------------------------------------------------------------------
\* Git._parsePerson(line)
DoParsePerson ==
    /\ person = None
    /\ person' = ParsePerson(person_line)
    /\ UNCHANGED <<person_line, revVars, xrefVars, dtLineVars, diffVars, refsVars, treeVars>>

\* Git.revList(obj)
DoRevList ==
    /\ rev_call = "none"
    /\ rev_call' = "revList"
    /\ rev_result' = RevList(rev_res)
    /\ UNCHANGED <<rev_res, personVars, xrefVars, dtLineVars, diffVars, refsVars, treeVars>>

\* Git.commit(id)
DoCommit ==
    /\ rev_call = "none"
    /\ HonoursMaxCountOne(rev_res)
    /\ rev_call' = "commit"
    /\ rev_result' = Commit(rev_res)
    /\ UNCHANGED <<rev_res, personVars, xrefVars, dtLineVars, diffVars, refsVars, treeVars>>

\* GitHead.commit()
DoHeadCommit ==
    /\ rev_call = "none"
    /\ HonoursMaxCountOne(rev_res)
    /\ rev_call' = "head.commit"
    /\ rev_result' = HeadCommit(rev_res)
    /\ UNCHANGED <<rev_res, personVars, xrefVars, dtLineVars, diffVars, refsVars, treeVars>>

\* Git.commitsSetRefs(commits, tags, heads, remotes)
DoCommitsSetRefs ==
    /\ calls < MaxCalls
    /\ commits' = SetRefs(commits, tags, heads, remotes)
    /\ calls' = calls + 1
    /\ UNCHANGED <<tags, heads, remotes, personVars, revVars, dtLineVars, diffVars, refsVars, treeVars>>

\* Git._parseDiffTree(line)
DoParseDiffTree ==
    /\ dt_entry = Pending
    /\ dt_entry' = ParseDiffTree(dt_line)
    /\ UNCHANGED <<dt_line, personVars, revVars, xrefVars, diffVars, refsVars, treeVars>>

\* Git.diffTree up to the call of _parseDiffTreePatch: the first loop, and
\* the return when no patch line follows.
DiffTreePassOne ==
    /\ diff_pc = "start"
    /\ LET one == PassOne(Split(diff_out, LF), 1, <<>>) IN
       /\ diff_trees' = one.entries
       /\ patch_lines' = one.patch_lines
       /\ diff_exc' = one.exc
       /\ diff_pc' = IF IsExc(one.exc) THEN "raised"
                     ELSE IF Len(one.patch_lines) > 0 THEN "patch"
                     ELSE "done"
    /\ UNCHANGED <<diff_out, patch_pos, cur, patch, personVars, revVars, xrefVars, dtLineVars, refsVars, treeVars>>

\* One turn of the loop of _parseDiffTreePatch: at a marker with a non-empty
\* buffer, diff_trees[cur].patch = patch (IndexError when cur is past the
\* end), cur += 1, patch = ''; then patch += line + '\n'.
PatchLoopStep ==
    /\ diff_pc = "patch"
    /\ patch_pos < Len(patch_lines)
    /\ LET line  == patch_lines[patch_pos + 1]
           flush == MatchDiffTreePatch(line) /\ Len(patch) > 0
       IN  IF flush /\ cur >= Len(diff_trees)
           THEN /\ diff_pc' = "raised"
                /\ diff_exc' = Raise("IndexError")
                /\ UNCHANGED <<diff_trees, patch_pos, cur, patch>>
           ELSE /\ diff_trees' = IF flush THEN [diff_trees EXCEPT ![cur + 1].patch = patch]
                                 ELSE diff_trees
                /\ cur' = IF flush THEN cur + 1 ELSE cur
                /\ patch' = NextPatch(patch, flush, line)
                /\ patch_pos' = patch_pos + 1
                /\ UNCHANGED <<diff_pc, diff_exc>>
    /\ UNCHANGED <<diff_out, patch_lines, personVars, revVars, xrefVars, dtLineVars, refsVars, treeVars>>

\* The end of _parseDiffTreePatch: the last buffer goes to diff_trees[cur] if
\* there is such an entry, and Git.diffTree returns diff_trees.
PatchLoopEnd ==
    /\ diff_pc = "patch"
    /\ patch_pos = Len(patch_lines)
    /\ diff_trees' = IF Len(patch) > 0 /\ cur < Len(diff_trees)
                     THEN [diff_trees EXCEPT ![cur + 1].patch = patch]
                     ELSE diff_trees
    /\ diff_pc' = "done"
    /\ UNCHANGED <<diff_out, patch_lines, patch_pos, cur, patch, diff_exc,
                   personVars, revVars, xrefVars, dtLineVars, refsVars, treeVars>>

\* Git.refs()
DoRefs ==
    /\ refs_result = Pending
    /\ refs_result' = Refs(refs_tagout, refs_headout)
    /\ UNCHANGED <<refs_tagout, refs_headout, personVars, revVars, xrefVars, dtLineVars,
                   diffVars, treeVars>>

\* GitComm.lsTree(id, long, zeroterm = True): what git prints for the flags.
LsTree(long) == IF long THEN ls_long_out ELSE ls_short_out

\* Git.tree: s = self._git.lsTree(id, long = True, zeroterm = True)
TreeQueryLong ==
    /\ tree_pc = "start"
    /\ tree_s' = LsTree(TRUE)
    /\ tree_queries' = Append(tree_queries, TRUE)
    /\ tree_pc' = "queried"
    /\ UNCHANGED <<ls_long_out, ls_short_out, tree_result, personVars, revVars, xrefVars,
                   dtLineVars, diffVars, refsVars>>

\* Git.tree: if s.startswith('usage'): s = self._git.lsTree(id, zeroterm = True)
TreeRetryShort ==
    /\ tree_pc = "queried"
    /\ RejectsLong(tree_s)
    /\ tree_s' = LsTree(FALSE)
    /\ tree_queries' = Append(tree_queries, FALSE)
    /\ tree_pc' = "retried"
    /\ UNCHANGED <<ls_long_out, ls_short_out, tree_result, personVars, revVars, xrefVars,
                   dtLineVars, diffVars, refsVars>>

\* Git.tree: the loop over s.split('\x00') and the return.
TreeParse ==
    /\ \/ tree_pc = "queried" /\ ~RejectsLong(tree_s)
       \/ tree_pc = "retried"
    /\ tree_result' = TreeObjs(tree_s)
    /\ tree_pc' = IF IsExc(TreeObjs(tree_s)) THEN "raised" ELSE "done"
    /\ UNCHANGED <<ls_long_out, ls_short_out, tree_queries, tree_s, personVars, revVars,
                   xrefVars, dtLineVars, diffVars, refsVars>>

\* ------------------------------------------------------------------------
\* Specifications
\* ------------------------------------------------------------------------
\* One call of _parsePerson on one line.
InitPerson == PersonInit /\ RevIdle /\ XrefIdle /\ DtLineIdle /\ DiffIdle /\ RefsIdle /\ TreeIdle

NextPerson == DoParsePerson

SpecPerson == InitPerson /\ [][NextPerson]_vars

\* One commit lookup on one output of git rev-list.
InitRev == RevInit /\ PersonIdle /\ XrefIdle /\ DtLineIdle /\ DiffIdle /\ RefsIdle /\ TreeIdle

NextRev == DoRevList \/ DoCommit \/ DoHeadCommit

SpecRev == InitRev /\ [][NextRev]_vars

\* Repeated cross-reference of one commit list with one set of ref lists.
InitXref == XrefInit /\ PersonIdle /\ RevIdle /\ DtLineIdle /\ DiffIdle /\ RefsIdle /\ TreeIdle

NextXref == DoCommitsSetRefs

SpecXref == InitXref /\ [][NextXref]_vars

\* One call of _parseDiffTree on one line.
InitDtLine == DtLineInit /\ PersonIdle /\ RevIdle /\ XrefIdle /\ DiffIdle /\ RefsIdle /\ TreeIdle

NextDtLine == DoParseDiffTree

SpecDtLine == InitDtLine /\ [][NextDtLine]_vars

\* One call of Git.diffTree on one output of git diff-tree.
InitDiff == DiffInit /\ PersonIdle /\ RevIdle /\ XrefIdle /\ DtLineIdle /\ RefsIdle /\ TreeIdle

NextDiff == DiffTreePassOne \/ PatchLoopStep \/ PatchLoopEnd

SpecDiff == InitDiff /\ [][NextDiff]_vars

\* One call of Git.refs on one pair of outputs of git for-each-ref.
InitRefs == RefsInit /\ PersonIdle /\ RevIdle /\ XrefIdle /\ DtLineIdle /\ DiffIdle /\ TreeIdle

NextRefs == DoRefs

SpecRefs == InitRefs /\ [][NextRefs]_vars

\* One call of Git.tree against one git.
InitTree == TreeInit /\ PersonIdle /\ RevIdle /\ XrefIdle /\ DtLineIdle /\ DiffIdle /\ RefsIdle

NextTree == TreeQueryLong \/ TreeRetryShort \/ TreeParse

SpecTree == InitTree /\ [][NextTree]_vars

\* ------------------------------------------------------------------------
\* Claims
\* ------------------------------------------------------------------------
\* Seconds east of UTC that a sign-HHMM offset denotes: sign*(hh + mm/60)*3600.
ValidHHMM(tz) ==
    /\ Len(tz) = 5
    /\ MatchTz(tz)
    /\ DigitsVal(SubSeq(tz, 4, 5)) < 60

OffsetSeconds(tz) ==
    LET hh == DigitsVal(SubSeq(tz, 2, 3))
        mm == DigitsVal(SubSeq(tz, 4, 5))
    IN  IF tz[1] = "+" THEN hh * 3600 + mm * 60 ELSE -(hh * 3600 + mm * 60)

\* C4: for every valid epoch / sign-HHMM pair, minutes included, the derived
\* UTC instant is the epoch minus the offset in seconds, and adding the offset
\* back to the UTC instant gives the epoch again.
C4_UtcInstantIsEpochMinusOffset ==
    (person.kind = "GitPerson" /\ ValidHHMM(person.date.local_tz)) =>
        /\ person.date.gmt = person.date.local - OffsetSeconds(person.date.local_tz)
        /\ person.date.gmt + OffsetSeconds(person.date.local_tz) = person.date.local

\* C5: _parsePerson raises for no line: a line without the trailing epoch and
\* offset is kept whole with the date epoch 0 / +0000, and a line that matches
\* the person pattern, whatever the length of its offset, yields a person with
\* a date.
C5_ParsePersonNeverRaises ==
    person # None =>
        /\ ~IsExc(person)
        /\ MatchPerson(person_line) = None =>
              /\ person.person = person_line
              /\ person.date = [kind |-> "GitDate", gmt |-> 0, local |-> 0,
                                local_tz |-> <<"+", "0", "0", "0", "0">>]
        /\ MatchPerson(person_line) # None =>
              /\ person.kind = "GitPerson"
              /\ person.person = MatchPerson(person_line).g1
              /\ person.date.kind = "GitDate"

\* The records of an output that Git.revList parses.
Hunks(res) == SelectSeq(Split(res, NUL), LAMBDA h : Len(h) > 1)

\* The parent ids a record names, in the order it names them: the first
\* line's, then those of the parent header lines.
SeenParents(rec) ==
    LET lines == Split(rec, LF)
        named == SelectSeq(Tail(lines), LAMBDA l : Slice(l, 0, 6) = W_parent)
    IN  Tail(Split(lines[1], SP)) \o [i \in 1..Len(named) |-> SliceFrom(named[i], 7)]

\* seq without the later occurrences of each element.
RECURSIVE FirstSeen(_)
FirstSeen(seq) ==
    IF Len(seq) = 0 THEN <<>>
    ELSE LET init == FirstSeen(SubSeq(seq, 1, Len(seq) - 1))
             last == seq[Len(seq)]
         IN  IF InSeq(last, init) THEN init ELSE Append(init, last)

\* C3: the parents of every parsed commit hold no id twice and list the ids in
\* first-seen order, first line first, then the parent header lines.
C3_ParentsFirstSeenNoDuplicates ==
    (rev_call = "revList" /\ rev_result.kind = "list") =>
        \A k \in 1..Len(rev_result.items) :
            LET parents == rev_result.items[k].parents IN
            /\ \A i, j \in 1..Len(parents) : parents[i] = parents[j] => i = j
            /\ parents = FirstSeen(SeenParents(Hunks(rev_res)[k]))

\* C7: when the listing holds no commit record, Git.commit and GitHead.commit
\* both return None and neither raises.
C7_LookupOfNothingReturnsNone ==
    (rev_call \in {"commit", "head.commit"} /\ Len(Hunks(rev_res)) = 0) =>
        rev_result = None

\* How often x occurs in seq.
Count(seq, x) == Cardinality({i \in 1..Len(seq) : seq[i] = x})

\* back lists the refs of refs that satisfy hit, each once, in the order of refs.
IsExactlyTheMatching(back, refs, hit(_)) ==
    /\ \A r \in 1..Len(refs) : Count(back, refs[r]) = IF hit(refs[r]) THEN 1 ELSE 0
    /\ \A i \in 1..Len(back) : InSeq(back[i], refs)
    /\ \A i, j \in 1..Len(back) :
          i < j => \E r, q \in 1..Len(refs) : r < q /\ refs[r] = back[i] /\ refs[q] = back[j]

\* C2: after one commitsSetRefs on commits with empty back-reference lists,
\* every commit's tags are exactly the tags whose objid is its id, its heads
\* and remotes exactly those whose id is its id, in list order; a tag that
\* matches exactly one commit is the whole of that commit's tags and is in no
\* other commit's tags.
C2_OneCallAttachesExactlyTheMatchingRefs ==
    calls = 1 =>
        /\ \A c \in 1..Len(commits) :
              /\ IsExactlyTheMatching(commits[c].tags, tags, LAMBDA t : t.objid = commits[c].id)
              /\ IsExactlyTheMatching(commits[c].heads, heads, LAMBDA h : h.id = commits[c].id)
              /\ IsExactlyTheMatching(commits[c].remotes, remotes, LAMBDA r : r.id = commits[c].id)
        /\ LET pairs == {p \in (1..Len(tags)) \X (1..Len(commits)) :
                            tags[p[1]].objid = commits[p[2]].id}
           IN  Cardinality(pairs) = 1 =>
                   \A p \in pairs :
                       /\ commits[p[2]].tags = <<tags[p[1]]>>
                       /\ \A c \in 1..Len(commits) :
                             c # p[2] => ~InSeq(tags[p[1]], commits[c].tags)

C2_Witness ==
    /\ calls = 1
    /\ Cardinality({p \in (1..Len(tags)) \X (1..Len(commits)) :
                       tags[p[1]].objid = commits[p[2]].id}) = 1
    /\ Len(commits) = 2
    /\ \E c \in 1..Len(commits) : Len(commits[c].tags) = 1 /\ Len(commits[c].heads) = 1
    /\ \E t \in 1..Len(tags) : tags[t].id # tags[t].objid

\* C9: after k calls of commitsSetRefs with the same lists, every ref whose
\* objid (tag) or id (head, remote) is a commit's id occurs exactly k times in
\* that commit's list, and a ref that does not match occurs in it never.
C9_EachCallAppendsTheMatchingRefsAgain ==
    \A c \in 1..Len(commits) :
        /\ \A t \in 1..Len(tags) :
              Count(commits[c].tags, tags[t]) =
                  IF tags[t].objid = commits[c].id THEN calls ELSE 0
        /\ \A h \in 1..Len(heads) :
              Count(commits[c].heads, heads[h]) =
                  IF heads[h].id = commits[c].id THEN calls ELSE 0
        /\ \A r \in 1..Len(remotes) :
              Count(commits[c].remotes, remotes[r]) =
                  IF remotes[r].id = commits[c].id THEN calls ELSE 0

C9_Witness ==
    /\ calls = 2
    /\ \E c \in 1..Len(commits) :
          /\ \E t \in 1..Len(tags) : Count(commits[c].tags, tags[t]) = 2
          /\ \E t \in 1..Len(tags) : Count(commits[c].tags, tags[t]) = 0
          /\ \E h \in 1..Len(heads) : Count(commits[c].heads, heads[h]) = 2

\* C8: every line that matches the raw diff-tree pattern yields an entry and
\* raises nothing; with status R or C from_file is the path field before its
\* first tab and to_file the part after it, with any other status both are
\* the whole path field.
C8_MatchingLineYieldsEntry ==
    (dt_entry # Pending /\ MatchDiffTree(dt_line) # None) =>
        LET path == MatchDiffTree(dt_line).g7
            tab  == Find(path, TAB)
        IN  /\ dt_entry.kind = "GitDiffTree"
            /\ dt_entry.status \in {"R", "C"} /\ tab > 0 =>
                  /\ dt_entry.from_file = SubSeq(path, 1, tab - 1)
                  /\ dt_entry.to_file = SubSeq(path, tab + 1, Len(path))
            /\ dt_entry.status \notin {"R", "C"} =>
                  /\ dt_entry.from_file = path
                  /\ dt_entry.to_file = path

\* The positions of the lines that begin with diff --git.
MarkerPositions(lines) ==
    SelectSeq([i \in 1..Len(lines) |-> i], LAMBDA i : StartsWith(lines[i], W_diffgit))

\* The i-th patch block: the lines from the i-th marker up to the next one,
\* each followed by a newline.
RECURSIVE TextOf(_)
TextOf(lines) ==
    IF Len(lines) = 0 THEN <<>> ELSE Head(lines) \o <<LF>> \o TextOf(Tail(lines))

PatchBlock(lines, i) ==
    LET at == MarkerPositions(lines)
        to == IF i < Len(at) THEN at[i + 1] - 1 ELSE Len(lines)
    IN  TextOf(SubSeq(lines, at[i], to))

\* The lines after the first empty line are N blocks that each start with a
\* marker, for the N entries of pass one.
WellFormedPatches ==
    /\ Len(MarkerPositions(patch_lines)) = Len(diff_trees)
    /\ Len(patch_lines) > 0 => StartsWith(patch_lines[1], W_diffgit)

\* C1: when pass one made N entries and the lines after the first empty line
\* are N patch blocks, each starting with a diff --git line, entry i holds
\* exactly the text of block i.
C1_EntryGetsItsPatchBlock ==
    (diff_pc = "done" /\ WellFormedPatches) =>
        \A i \in 1..Len(diff_trees) : diff_trees[i].patch = PatchBlock(patch_lines, i)

C1_Witness ==
    /\ diff_pc = "done"
    /\ WellFormedPatches
    /\ Len(diff_trees) = 2
    /\ Len(patch_lines) = 3
    /\ diff_trees[1].patch # diff_trees[2].patch
    /\ diff_trees[2].patch # <<>>

\* A tag line with exactly two null-byte-separated segments, at least five
\* space-separated fields in the first and at least three in the second.
WellFormedTagLine(line) ==
    LET segs == Split(line, NUL) IN
    /\ Len(segs) = 2
    /\ Len(Split(segs[1], SP)) >= 5
    /\ Len(Split(segs[2], SP)) >= 3

\* C6: Git.refs raises for no batch of tag lines; a malformed line gives no
\* tag, and the well-formed lines of the batch give their tags, in line order.
C6_MalformedTagLinesAreSkipped ==
    refs_result # Pending =>
        /\ refs_result.kind = "refs"
        /\ LET good == SelectSeq(Split(refs_tagout, LF), WellFormedTagLine) IN
           /\ Len(refs_result.tags) = Len(good)
           /\ \A k \in 1..Len(good) :
                 LET f == Split(good[k], SP) IN
                 /\ refs_result.tags[k].id = f[1]
                 /\ refs_result.tags[k].name = SliceFrom(f[3], Len(W_refsTags))

\* C10: Git.tree asks first with --long; it asks a second time, without
\* --long, exactly when the first output begins with usage; it asks at most
\* twice; what it returns is parsed from the last output alone; and after the
\* fallback every entry's size is blank.
C10_TreeProbeAndRetry ==
    LET usage == StartsWith(ls_long_out, W_usage)
        n     == Len(tree_queries)
        last  == IF n = 2 THEN ls_short_out ELSE ls_long_out
    IN  /\ n <= 2
        /\ tree_pc # "start" => n >= 1 /\ tree_queries[1] = TRUE
        /\ n = 2 => tree_queries[2] = FALSE /\ usage
        /\ tree_pc \in {"done", "raised"} =>
              /\ n = 2 <=> usage
              /\ tree_result = TreeObjs(last)
        /\ (tree_pc = "done" /\ n = 2) =>
              \A k \in 1..Len(tree_result.items) : tree_result.items[k].size = <<>>

C10_Witness ==
    /\ tree_pc = "done"
    /\ tree_queries = <<TRUE, FALSE>>
    /\ Len(tree_result.items) = 2
    /\ tree_result.items[1].kind # tree_result.items[2].kind

\* A write of the patch buffer is due in the loop of _parseDiffTreePatch: the
\* next line begins with diff --git and the buffer is not empty.
WriteDue ==
    /\ diff_pc = "patch"
    /\ patch_pos < Len(patch_lines)
    /\ MatchDiffTreePatch(patch_lines[patch_pos + 1])
    /\ Len(patch) > 0

\* C11: for any list of entries and any lines after the first empty line,
\* whenever the patch buffer is written the fill cursor is less than the
\* number of entries, and the attachment never ends with an IndexError.
C11_PatchAttachmentStaysInBounds ==
    /\ WriteDue => cur < Len(diff_trees)
    /\ diff_exc # Raise("IndexError")

====
